---- MODULE Spec2Model ----
(***************************************************************************)
(* Model of the hangman solver of src/src/main.rs: the pattern model       *)
(* (Fragment, Word, Hangman), the dictionary (LangDict) and the solve loop *)
(* of main.                                                                *)
(*                                                                         *)
(* A Rust char is its Unicode code point, a &str / String is the sequence  *)
(* of its chars; Option<char> is <<>> (None) or <<c>> (Some(c)).           *)
(* Code points used below:                                                 *)
(*   33 '!'  38 '&'  39 '\''  44 ','  45 '-'  46 '.'  47 '/'  48..57 '0'.. *)
(*   '9'  65 'A'  95 '_'  97 'a'  98 'b'  101 'e'  115 's'  116 't'        *)
(*   233 e-acute (two bytes in UTF-8, alphabetic)  10 line feed  32 ' '    *)
(***************************************************************************)
EXTENDS Integers, Sequences, FiniteSets, TLC

VARIABLES
    pc,          \* position of main / of the unit harness
    fmt,         \* the format string given on the command line
    text,        \* the word list read in update mode
    langdict,    \* langdicts[0], the loaded dictionary
    word,        \* main's `word`
    matches,     \* main's `matches`, the working dictionary
    attempts,    \* main's `attempts`
    ranked,      \* the value rank_letters returned this round (line 381)
    suggestion,  \* main's `suggestion`
    buf,         \* the line read this round (line 394), parsed: <<char, pos>>
    target,      \* the word the player has in mind (truthful play only)
    call,        \* unit harness: the last call made, with its arguments
    ret          \* unit harness: what that call returned

vars == <<pc, fmt, text, langdict, word, matches, attempts, ranked,
          suggestion, buf, target, call, ret>>

----------------------------------------------------------------------------
(* Bounds of the model *)

MaxFmtLen == 3      \* longest enumerated format string
MaxWordLen == 2     \* longest enumerated Word (unit harness)
MaxStrLen == 3      \* longest enumerated string compared with a Word
MaxPositions == 2   \* longest list of positions given to add_letter
MaxLines == 2       \* most lines of a word list
MaxRounds == 2      \* most feedback rounds of the solve loop
MaxCalls == 2       \* most consecutive calls of the unit harness
MaxTextLen == 3     \* longest enumerated word list, in chars

----------------------------------------------------------------------------
(* Helpers on sequences and sets *)

Range(s) == {s[i] : i \in 1..Len(s)}

SeqsUpTo(S, n) == UNION {[1..k -> S] : k \in 0..n}

None == <<>>
Some(c) == <<c>>

----------------------------------------------------------------------------
(* char and str primitives of the standard library, as main.rs uses them *)

\* char::is_alphanumeric on the code points below 256
IsAlphanumeric(c) ==
    \/ c \in 48..57
    \/ c \in 65..90
    \/ c \in 97..122
    \/ c \in {170, 178, 179, 181, 185, 186, 188, 189, 190}
    \/ c \in (192..214) \cup (216..246) \cup (248..255)

\* char::is_digit(10) and char::to_digit(10)
IsDigit(c) == c \in 48..57
ToDigit(c) == c - 48

\* the number of bytes of a char in UTF-8
Utf8Len(c) == IF c < 128 THEN 1 ELSE IF c < 2048 THEN 2 ELSE IF c < 65536 THEN 3 ELSE 4

RECURSIVE ByteLen(_)
\* str::len: the length in bytes
ByteLen(s) == IF s = <<>> THEN 0 ELSE Utf8Len(Head(s)) + ByteLen(Tail(s))

\* char lowercasing on the code points below 256
LowerChar(c) ==
    IF c \in 65..90 \/ c \in (192..214) \cup (216..222) THEN c + 32 ELSE c

\* the string left as it is
ToLowercaseNot(s) == s

\* str::to_lowercase
ToLowercase(s) == [i \in 1..Len(s) |-> LowerChar(s[i])]

RECURSIVE SplitAcc(_, _, _, _)
SplitAcc(s, sep, cur, acc) ==
    IF s = <<>> THEN Append(acc, cur)
    ELSE IF Head(s) = sep THEN SplitAcc(Tail(s), sep, <<>>, Append(acc, cur))
    ELSE SplitAcc(Tail(s), sep, Append(cur, Head(s)), acc)

\* str::split(sep): the pieces between separators, empty pieces included
Split(s, sep) == SplitAcc(s, sep, <<>>, <<>>)

\* str::lines: split at line feeds, without a final empty line, each line
\* without its trailing carriage return
Lines(s) ==
    LET parts == Split(s, 10)
        kept == IF parts[Len(parts)] = <<>> THEN SubSeq(parts, 1, Len(parts) - 1)
                ELSE parts
        strip(l) == IF l # <<>> /\ l[Len(l)] = 13 THEN SubSeq(l, 1, Len(l) - 1) ELSE l
    IN [i \in 1..Len(kept) |-> strip(kept[i])]

----------------------------------------------------------------------------
(* Fragment and Word *)

VALID_CHARS == (48..57) \cup {45, 39, 95}

Letter(opt) == [kind |-> "Letter", c |-> opt]
Punctuation(c) == [kind |-> "Punctuation", c |-> Some(c)]

\* a revealed letter taken to match any alphanumeric char
FragEqCharAnyLetter(frag, other) ==
    IF frag.kind = "Punctuation" THEN other = frag.c[1] ELSE IsAlphanumeric(other)

\* impl PartialEq<char> for Fragment
FragEqChar(frag, other) ==
    IF frag.kind = "Punctuation" THEN other = frag.c[1]
    ELSE IF frag.c # None THEN other = frag.c[1]
    ELSE IsAlphanumeric(other)

\* impl PartialEq<str> for Word
WordEqStr(w, other) ==
    IF Len(w) # ByteLen(other) THEN FALSE
    ELSE \A i \in 1..Len(other) : FragEqChar(w[i], other[i])

RECURSIVE AddLetterLoop(_, _, _)
AddLetterLoop(w, letter, positions) ==
    IF positions = <<>> THEN [status |-> "Ok", word |-> w]
    ELSE LET pos == Head(positions) IN
         IF pos + 1 > Len(w) THEN [status |-> "Panic", word |-> w]
         ELSE IF w[pos + 1].kind = "Letter"
              THEN AddLetterLoop([w EXCEPT ![pos + 1] = Letter(Some(letter))],
                                 letter, Tail(positions))
              ELSE [status |-> "Err", word |-> w]

\* Word::add_letter; positions are 0-based as in the source. The result
\* carries the word as the call leaves it: "Ok", "Err" (a punctuation
\* position) or "Panic" (an index out of bounds).
AddLetter(w, letter, positions) == AddLetterLoop(w, letter, positions)

\* a digit taken for one unknown letter, whatever its value
FromFormatStringOneSlot(value) ==
    [i \in 1..Len(value) |->
        IF IsDigit(value[i]) THEN Letter(None) ELSE Punctuation(value[i])]

RECURSIVE FromFormatString(_)
\* Word::from_format_string, on a string of VALID_CHARS (its assert)
FromFormatString(value) ==
    IF value = <<>> THEN <<>>
    ELSE LET c == Head(value)
             rest == FromFormatString(Tail(value))
         IN IF IsDigit(c)
            THEN [i \in 1..ToDigit(c) |-> Letter(None)] \o rest
            ELSE <<Punctuation(c)>> \o rest

\* impl TryFrom<&str> for Hangman
TryFrom(value) ==
    IF \E i \in 1..Len(value) : value[i] \notin VALID_CHARS
    THEN [ok |-> FALSE, words |-> <<>>]
    ELSE LET parts == Split(value, 95)
         IN [ok |-> TRUE,
             words |-> [i \in 1..Len(parts) |-> FromFormatString(parts[i])]]

----------------------------------------------------------------------------
(* LangDict: a map from a word to the set of its chars, as a function *)

EmptyDict == [k \in {} |-> {}]

\* HashMap::insert
Insert(d, key, val) == [k \in DOMAIN d \cup {key} |-> IF k = key THEN val ELSE d[k]]

\* HashMap::retain, by a set of keys to keep
Restrict(d, keep) == [k \in DOMAIN d \cap keep |-> d[k]]

\* the chars a word-list line may hold, the slash left out
AcceptedNoSlash(c) == IsAlphanumeric(c) \/ c \in {39, 45, 38, 44, 46, 33}

\* the chars a word-list line may hold (line 290)
Accepted(c) == IsAlphanumeric(c) \/ c \in {39, 45, 38, 44, 46, 47, 33}

RECURSIVE FromStrLoop(_, _)
FromStrLoop(lines, res) ==
    IF lines = <<>> THEN [ok |-> TRUE, dict |-> res, char |-> None]
    ELSE LET lower == ToLowercase(Head(lines))
             bad == {i \in 1..Len(lower) : ~Accepted(lower[i])}
         IN IF bad # {}
            THEN [ok |-> FALSE, dict |-> EmptyDict,
                  char |-> Some(lower[CHOOSE i \in bad : \A j \in bad : i <= j])]
            ELSE FromStrLoop(Tail(lines), Insert(res, lower, Range(lower)))

\* impl FromStr for LangDict
FromStr(s) == FromStrLoop(Lines(s), EmptyDict)

\* impl PartialEq<Word> for str
StrEqWord(s, w) == WordEqStr(w, s)

\* LangDict::get_matching
GetMatching(d, value) == Restrict(d, {key \in DOMAIN d : StrEqWord(key, value)})

\* only the words that start with the letter are removed
RemoveWithLetterAtStart(d, val) ==
    Restrict(d, {k \in DOMAIN d : k = <<>> \/ k[1] # val})

\* LangDict::remove_with_letter
RemoveWithLetter(d, val) == Restrict(d, {k \in DOMAIN d : val \notin Range(k)})

\* a new char entered with a count of zero
CountEntryFromZero(res, entry) ==
    [c \in DOMAIN res \cup entry |->
        IF c \in entry THEN (IF c \in DOMAIN res THEN res[c] + 1 ELSE 0) ELSE res[c]]

\* one step of the loop of count_letters: every char of an entry's set
\* gets its count raised by one, or set to one
CountEntry(res, entry) ==
    [c \in DOMAIN res \cup entry |->
        IF c \in entry THEN (IF c \in DOMAIN res THEN res[c] + 1 ELSE 1) ELSE res[c]]

RECURSIVE CountLoop(_, _, _)
CountLoop(d, keys, res) ==
    IF keys = {} THEN res
    ELSE LET k == CHOOSE x \in keys : TRUE
         IN CountLoop(d, keys \ {k}, CountEntry(res, d[k]))

\* LangDict::count_letters
CountLetters(d) == CountLoop(d, DOMAIN d, [c \in {} |-> 0])

\* Ord::cmp on integers
IntCmp(x, y) == IF x < y THEN "Less" ELSE IF x > y THEN "Greater" ELSE "Equal"

\* the comparator with its operands the other way round: ascending
RankCmpAscending(a, b) == IF a[2] < b[2] THEN "Less" ELSE IF a[2] > b[2] THEN "Greater" ELSE "Equal"

\* the comparator of rank_letters (line 330), on pairs <<char, count>>
RankCmp(a, b) == IntCmp(b[2], a[2])

\* a stable insertion: x goes behind every element that does not compare
\* Greater than it
InsertSorted(sorted, x) ==
    LET k == Cardinality({i \in 1..Len(sorted) : RankCmp(sorted[i], x) # "Greater"})
    IN SubSeq(sorted, 1, k) \o <<x>> \o SubSeq(sorted, k + 1, Len(sorted))

RECURSIVE SortBy(_)
\* slice::sort_by, a stable sort
SortBy(s) == IF s = <<>> THEN <<>>
             ELSE InsertSorted(SortBy(SubSeq(s, 1, Len(s) - 1)), s[Len(s)])

\* the orders in which a HashMap may hand out its entries: any
Orders(S) == {f \in [1..Cardinality(S) -> S] : \A i, j \in DOMAIN f : i # j => f[i] # f[j]}

\* LangDict::rank_letters: the results it can return, one for each order in
\* which the count map can be iterated
RankLetters(d) ==
    LET res == CountLetters(d)
    IN {LET pairs == [i \in DOMAIN o |-> <<o[i], res[o[i]]>>]
            sorted == SortBy(pairs)
        IN [i \in DOMAIN sorted |-> sorted[i][1]] : o \in Orders(DOMAIN res)}

\* the top-ranked letter, attempted or not
SuggestTopRanked(r, att) == IF r = <<>> THEN None ELSE Some(r[1])

RECURSIVE SuggestLoop(_, _, _)
SuggestLoop(r, att, sug) ==
    IF r = <<>> THEN sug
    ELSE LET ch == r[Len(r)]
         IN SuggestLoop(SubSeq(r, 1, Len(r) - 1), att,
                        IF ch \notin Range(att) THEN Some(ch) ELSE sug)

RECURSIVE SuggestFirstPopped(_, _)
\* the pop loop left at the first unattempted letter it finds
SuggestFirstPopped(r, att) ==
    IF r = <<>> THEN None
    ELSE IF r[Len(r)] \notin Range(att) THEN Some(r[Len(r)])
    ELSE SuggestFirstPopped(SubSeq(r, 1, Len(r) - 1), att)

\* main, lines 383-389: pop the ranked letters, keep the last unattempted
Suggest(r, att) == SuggestLoop(r, att, None)

----------------------------------------------------------------------------
(* Inputs *)

\* the chars the player types as a guess: a, b, '-', e-acute
GuessChars == {97, 98, 45, 233}

\* the lines word lists are made of: "ab", "aa", "a-b", e-acute, "-"
LinePool == {<<97, 98>>, <<97, 97>>, <<97, 45, 98>>, <<233>>, <<45>>}

RECURSIVE JoinLines(_)
\* a word list: its lines, a line feed between them
JoinLines(ls) == IF ls = <<>> THEN <<>>
                 ELSE IF Len(ls) = 1 THEN ls[1]
                 ELSE ls[1] \o <<10>> \o JoinLines(Tail(ls))

Texts == {JoinLines(ls) : ls \in SeqsUpTo(LinePool, MaxLines)}

\* the format strings main is run with: "1", "2", "1-1", "-", "1_2", "a"
Formats == {<<49>>, <<50>>, <<49, 45, 49>>, <<45>>, <<49, 95, 50>>, <<97>>}

\* the lists of positions the player types: 0-based, the index one past the
\* end of the word included
PosInputs(w) == SeqsUpTo(0..Len(w), MaxPositions)

\* the unit harness before its first call
NoCall == [op |-> "none", n |-> 0, args |-> <<>>]

----------------------------------------------------------------------------
(* main *)

Init ==
    /\ pc = "Start"
    /\ fmt \in Formats
    /\ text \in Texts
    /\ langdict = EmptyDict
    /\ word = <<>>
    /\ matches = EmptyDict
    /\ attempts = <<>>
    /\ ranked = <<>>
    /\ suggestion = None
    /\ buf = None
    /\ target = <<>>
    /\ call = NoCall
    /\ ret = NoCall

\* lines 360-379: the arguments are parsed (clap ends the program on a bad
\* format string), the dictionary is read from the word list (unwrap), the
\* first word of the puzzle is taken and the dictionary filtered by it
Startup ==
    /\ pc = "Start"
    /\ LET h == TryFrom(fmt)
           ld == FromStr(text)
       IN IF ~h.ok
          THEN /\ pc' = "ArgError"
               /\ UNCHANGED <<langdict, word, matches>>
          ELSE IF ~ld.ok
          THEN /\ pc' = "Panicked"
               /\ UNCHANGED <<langdict, word, matches>>
          ELSE /\ pc' = "Ranking"
               /\ langdict' = ld.dict
               /\ word' = h.words[1]
               /\ matches' = GetMatching(ld.dict, h.words[1])
    /\ UNCHANGED <<fmt, text, attempts, ranked, suggestion, buf, target, call, ret>>

\* lines 381-390 and 414-416: rank, pick the suggestion, leave the loop
\* when there is none
Rank ==
    /\ pc = "Ranking"
    /\ \E r \in RankLetters(matches) :
         /\ ranked' = r
         /\ suggestion' = Suggest(r, attempts)
         /\ pc' = IF Suggest(r, attempts) # None THEN "AwaitingFeedback" ELSE "Done"
    /\ buf' = None
    /\ UNCHANGED <<fmt, text, langdict, word, matches, attempts, target, call, ret>>

\* the round's filter run on the loaded dictionary, not on the working one
ApplyFromLoaded(char, pos) ==
    LET removed == IF pos = <<>> THEN RemoveWithLetter(matches, char) ELSE matches
        added == AddLetter(word, char, pos)
    IN /\ buf' = <<char, pos>>
       /\ attempts' = Append(attempts, char)
       /\ word' = added.word
       /\ IF added.status = "Ok"
          THEN /\ matches' = GetMatching(langdict, added.word)
               /\ pc' = "Ranking"
          ELSE /\ matches' = removed
               /\ pc' = "Panicked"
       /\ ranked' = <<>>
       /\ suggestion' = None
       /\ UNCHANGED <<fmt, text, langdict, target, call, ret>>

\* lines 394-413 with the line read being "char,(positions)"
Apply(char, pos) ==
    LET removed == IF pos = <<>> THEN RemoveWithLetter(matches, char) ELSE matches
        added == AddLetter(word, char, pos)
    IN /\ buf' = <<char, pos>>
       /\ attempts' = Append(attempts, char)
       /\ word' = added.word
       /\ IF added.status = "Ok"
          THEN /\ matches' = GetMatching(removed, added.word)
               /\ pc' = "Ranking"
          ELSE /\ matches' = removed
               /\ pc' = "Panicked"
       /\ ranked' = <<>>
       /\ suggestion' = None
       /\ UNCHANGED <<fmt, text, langdict, target, call, ret>>

\* a round of feedback: the player answers with any char and any positions
Feedback ==
    /\ pc = "AwaitingFeedback"
    /\ Len(attempts) < MaxRounds
    /\ \E char \in GuessChars, pos \in PosInputs(word) : Apply(char, pos)

Next == Startup \/ Rank \/ Feedback

Spec == Init /\ [][Next]_vars

\* -- truthful play: a single word of unknown letters, a target word of that
\* many chars in the dictionary, and feedback that is given for the
\* suggested letter and says where the target has it --

AllUnknown(w) == w # <<>> /\ \A i \in 1..Len(w) : w[i] = Letter(None)

RECURSIVE PositionsFrom(_, _, _)
PositionsFrom(t, c, i) ==
    IF i > Len(t) THEN <<>>
    ELSE (IF t[i] = c THEN <<i - 1>> ELSE <<>>) \o PositionsFrom(t, c, i + 1)

\* the 0-based positions at which t has c, in ascending order
PositionsOf(t, c) == PositionsFrom(t, c, 1)

InitTruthful ==
    /\ pc = "Start"
    /\ fmt \in {f \in Formats : /\ TryFrom(f).ok
                                /\ Len(TryFrom(f).words) = 1
                                /\ AllUnknown(TryFrom(f).words[1])}
    /\ text \in Texts
    /\ langdict = EmptyDict
    /\ word = <<>>
    /\ matches = EmptyDict
    /\ attempts = <<>>
    /\ ranked = <<>>
    /\ suggestion = None
    /\ buf = None
    /\ target \in {t \in DOMAIN FromStr(text).dict :
                     /\ Len(t) = Len(TryFrom(fmt).words[1])
                     /\ \A i \in 1..Len(t) : IsAlphanumeric(t[i])}
    /\ call = NoCall
    /\ ret = NoCall

TruthfulFeedback ==
    /\ pc = "AwaitingFeedback"
    /\ Len(attempts) < MaxRounds
    /\ Apply(suggestion[1], PositionsOf(target, suggestion[1]))

NextTruthful == Startup \/ Rank \/ TruthfulFeedback

SpecTruthful == InitTruthful /\ [][NextTruthful]_vars

----------------------------------------------------------------------------
(* Unit harness: the operations called one at a time on enumerated inputs. *)
(* call.n counts the calls made; main's own variables stay as Idle leaves  *)
(* them unless the operation called works on one of them.                  *)

Idle ==
    /\ langdict = EmptyDict
    /\ matches = EmptyDict
    /\ attempts = <<>>
    /\ ranked = <<>>
    /\ suggestion = None
    /\ buf = None
    /\ target = <<>>
    /\ call = NoCall
    /\ ret = NoCall

Called(op, args) == [op |-> op, n |-> call.n + 1, args |-> args]

\* -- Word: == with a str, add_letter --

\* the fragments enumerated Words are made of: _, a, b, '-'
FragPool == {Letter(None), Letter(Some(97)), Letter(Some(98)), Punctuation(45)}

\* the chars enumerated strings are made of: a, b, '-', e-acute
StrChars == {97, 98, 45, 233}

InitWord ==
    /\ pc = "unit"
    /\ fmt = <<>>
    /\ text = <<>>
    /\ word \in SeqsUpTo(FragPool, MaxWordLen)
    /\ Idle

CallWordEq ==
    /\ pc = "unit"
    /\ call.n < MaxCalls
    /\ \E s \in SeqsUpTo(StrChars, MaxStrLen) :
         /\ call' = Called("eq", <<s>>)
         /\ ret' = WordEqStr(word, s)
    /\ UNCHANGED <<pc, fmt, text, langdict, word, matches, attempts, ranked,
                   suggestion, buf, target>>

CallAddLetter ==
    /\ pc = "unit"
    /\ call.n < MaxCalls
    /\ \E letter \in {97, 98}, positions \in PosInputs(word) :
         /\ call' = Called("add_letter", <<letter, positions>>)
         /\ ret' = AddLetter(word, letter, positions).status
         /\ word' = AddLetter(word, letter, positions).word
    /\ UNCHANGED <<pc, fmt, text, langdict, matches, attempts, ranked,
                   suggestion, buf, target>>

NextWord == CallWordEq \/ CallAddLetter

SpecWord == InitWord /\ [][NextWord]_vars

\* -- Hangman: try_from a format string --

\* the chars enumerated format strings are made of: 0, 2, '-', '\'', _, a
FmtChars == {48, 50, 45, 39, 95, 97}

\* the format string "2-7'1"
Scenario4 == <<50, 45, 55, 39, 49>>

InitParse ==
    /\ pc = "unit"
    /\ fmt \in SeqsUpTo(FmtChars, MaxFmtLen) \cup {Scenario4}
    /\ text = <<>>
    /\ word = <<>>
    /\ Idle

CallTryFrom ==
    /\ pc = "unit"
    /\ call.n = 0
    /\ call' = Called("try_from", <<fmt>>)
    /\ ret' = TryFrom(fmt)
    /\ UNCHANGED <<pc, fmt, text, langdict, word, matches, attempts, ranked,
                   suggestion, buf, target>>

NextParse == CallTryFrom

SpecParse == InitParse /\ [][NextParse]_vars

\* -- LangDict: from_str, then remove_with_letter, count_letters and --
\* -- rank_letters on the loaded dictionary --

\* the word lists of Texts and "test", "Ab" and "a b"
DictTexts == Texts \cup {<<116, 101, 115, 116>>, <<65, 98>>, <<97, 32, 98>>}

InitDict ==
    /\ pc = "unit"
    /\ fmt = <<>>
    /\ text \in DictTexts
    /\ word = <<>>
    /\ Idle

CallFromStr ==
    /\ pc = "unit"
    /\ LET ld == FromStr(text)
       IN /\ pc' = IF ld.ok THEN "loaded" ELSE "loaderr"
          /\ langdict' = ld.dict
          /\ matches' = ld.dict
          /\ call' = Called("from_str", <<text>>)
          /\ ret' = ld
    /\ UNCHANGED <<fmt, text, word, attempts, ranked, suggestion, buf, target>>

CallRemoveWithLetter ==
    /\ pc = "loaded"
    /\ call.n <= MaxCalls
    /\ \E val \in GuessChars :
         /\ call' = Called("remove_with_letter", <<val>>)
         /\ matches' = RemoveWithLetter(matches, val)
    /\ ret' = NoCall
    /\ UNCHANGED <<pc, fmt, text, langdict, word, attempts, ranked, suggestion, buf,
                   target>>

CallCountLetters ==
    /\ pc = "loaded"
    /\ call.n <= MaxCalls
    /\ call' = Called("count_letters", <<>>)
    /\ ret' = CountLetters(matches)
    /\ UNCHANGED <<pc, fmt, text, langdict, word, matches, attempts, ranked,
                   suggestion, buf, target>>

CallRankLetters ==
    /\ pc = "loaded"
    /\ call.n <= MaxCalls
    /\ call' = Called("rank_letters", <<>>)
    /\ ret' \in RankLetters(matches)
    /\ UNCHANGED <<pc, fmt, text, langdict, word, matches, attempts, ranked,
                   suggestion, buf, target>>

CallGetMatching ==
    /\ pc = "loaded"
    /\ call.n <= MaxCalls
    /\ \E value \in SeqsUpTo(FragPool, MaxWordLen) :
         /\ call' = Called("get_matching", <<value>>)
         /\ ret' = GetMatching(matches, value)
    /\ UNCHANGED <<pc, fmt, text, langdict, word, matches, attempts, ranked,
                   suggestion, buf, target>>

NextDict ==
    \/ CallFromStr
    \/ CallRemoveWithLetter
    \/ CallCountLetters
    \/ CallRankLetters
    \/ CallGetMatching

SpecDict == InitDict /\ [][NextDict]_vars

\* -- LangDict: from_str on enumerated word lists --

\* the chars enumerated word lists are made of: a, A, '/', ' ', '!' and
\* the line feed
LoadChars == {97, 65, 47, 32, 33, 10}

\* the word list "muffin"
Muffin == <<109, 117, 102, 102, 105, 110>>

InitLoad ==
    /\ pc = "unit"
    /\ fmt = <<>>
    /\ text \in SeqsUpTo(LoadChars, MaxTextLen) \cup {Muffin}
    /\ word = <<>>
    /\ Idle

NextLoad == CallFromStr

SpecLoad == InitLoad /\ [][NextLoad]_vars

----------------------------------------------------------------------------
(* Properties *)

\* the last argument list and the pieces of it
Arg(i) == call.args[i]

\* what the pattern model says of one position: the char is the
\* punctuation char, or the revealed letter, or alphanumeric at an unknown
PositionMatches(frag, ch) ==
    \/ frag.kind = "Punctuation" /\ ch = frag.c[1]
    \/ frag.kind = "Letter" /\ frag.c # None /\ ch = frag.c[1]
    \/ frag.kind = "Letter" /\ frag.c = None /\ IsAlphanumeric(ch)

\* C1: a Word w and a string s with as many chars as w has fragments: w
\* matches s if and only if every position matches (the punctuation char,
\* the revealed letter, or an alphanumeric char at an unknown letter).
C1_MatchesIffEveryPosition ==
    (call.op = "eq" /\ Len(Arg(1)) = Len(word))
        => (ret <=> \A i \in 1..Len(word) : PositionMatches(word[i], Arg(1)[i]))

HasUnknown(w) == \E i \in 1..Len(w) : w[i] = Letter(None)

\* the fragments one char of a format string stands for
Expand(c) == IF c \in 48..57 THEN [i \in 1..(c - 48) |-> Letter(None)]
             ELSE <<[kind |-> "Punctuation", c |-> <<c>>]>>

RECURSIVE ExpandRun(_, _, _)
\* the fragments of the chars of f from index lo to index hi
ExpandRun(f, lo, hi) == IF lo > hi THEN <<>>
                        ELSE Expand(f[lo]) \o ExpandRun(f, lo + 1, hi)

\* the Words of a format string, read off the places of its separators
WordsOf(f) ==
    LET seps == {i \in 1..Len(f) : f[i] = 95}
        \* the k-th word lies between the (k-1)-th and the k-th separator
        start(k) == IF k = 1 THEN 1
                    ELSE 1 + CHOOSE i \in seps : Cardinality({j \in seps : j < i}) = k - 2
        stop(k) == IF k = Cardinality(seps) + 1 THEN Len(f)
                   ELSE (CHOOSE i \in seps : Cardinality({j \in seps : j < i}) = k - 1) - 1
    IN [k \in 1..(Cardinality(seps) + 1) |-> ExpandRun(f, start(k), stop(k))]

\* C2: parsing a format string succeeds exactly when every char is a digit,
\* a hyphen, an apostrophe or the separator '_'; then the string is split
\* into Words at each separator, a digit n giving n unknown letters and a
\* hyphen or apostrophe one Punctuation fragment, in order ("2-7'1" gives 2
\* unknown, '-', 7 unknown, '\'', 1 unknown); otherwise no Puzzle is made.
C2_ParseFormat ==
    call.op = "try_from" =>
        /\ ret.ok <=> \A i \in 1..Len(fmt) : fmt[i] \in (48..57) \cup {45, 39, 95}
        /\ ret.ok => ret.words = WordsOf(fmt)
        /\ ~ret.ok => ret.words = <<>>
        /\ fmt = Scenario4 =>
             ret.words = << [i \in 1..12 |->
                               IF i = 3 THEN Punctuation(45)
                               ELSE IF i = 11 THEN Punctuation(39)
                               ELSE Letter(None)] >>

\* C2's case: the format string "2-7'1" has been parsed
C2_Witness == call.op = "try_from" /\ fmt = Scenario4 /\ ret.ok

\* the first place of a char in a list, 0 when it is not there
IndexOf(r, c) == IF c \in Range(r) THEN CHOOSE i \in 1..Len(r) : r[i] = c /\ \A j \in 1..(i - 1) : r[j] # c
                 ELSE 0

CountOf(counts, c) == IF c \in DOMAIN counts THEN counts[c] ELSE 0

\* C3: in every round that asks for feedback, the suggested letter is not
\* attempted and is the top-ranked unattempted letter: no unattempted
\* letter precedes it in the round's ranked list, and its count is at least
\* that of every other unattempted letter.
C3_SuggestionIsTopUnattempted ==
    pc = "AwaitingFeedback" =>
        /\ suggestion # None
        /\ suggestion[1] \notin Range(attempts)
        /\ suggestion[1] \in Range(ranked)
        /\ \A j \in 1..Len(ranked) :
             (ranked[j] \notin Range(attempts) /\ ranked[j] # suggestion[1])
                 => /\ IndexOf(ranked, suggestion[1]) < j
                    /\ CountOf(CountLetters(matches), ranked[j])
                         <= CountOf(CountLetters(matches), suggestion[1])

\* C3's case: feedback is asked for while the top-ranked letter is already
\* attempted and two unattempted letters are left to choose from
C3_Witness ==
    /\ pc = "AwaitingFeedback"
    /\ Len(ranked) >= 3
    /\ ranked[1] \in Range(attempts)
    /\ Cardinality(Range(ranked) \ Range(attempts)) >= 2
    /\ suggestion = Some(ranked[2])

\* C4: whenever the word has no unknown Letter fragment left, the solve loop
\* is over: it makes no further suggestion and asks for no further feedback.
C4_NoUnknownMeansSolved ==
    ~HasUnknown(word) => (pc # "AwaitingFeedback" /\ suggestion = None)


\* the pattern shows exactly the word t, every letter revealed
Spells(w, t) == Len(w) = Len(t) /\ \A i \in 1..Len(w) : w[i] = Letter(Some(t[i]))

\* C5: a single word of unknown letters, an alphanumeric target t of that
\* length in the dictionary, feedback truthful about t for the suggested
\* letter: the solve loop ends with every Letter revealed and the pattern
\* equal to t.
C5_TruthfulPlaySolves == pc = "Done" => Spells(word, target)

\* C6: add_letter on a position already revealed is a no-op when the letter
\* is the same and an error when it differs: a revealed letter is never
\* overwritten, a position changes at most once, from unknown to a letter.
C6_RevealedNeverOverwritten ==
    [][call'.op = "add_letter" =>
         \A p \in Range(call'.args[2]) :
            (p < Len(word) /\ word[p + 1].kind = "Letter" /\ word[p + 1].c # None)
               => /\ word'[p + 1] = word[p + 1]
                  /\ word[p + 1].c # Some(call'.args[1]) => ret' # "Ok"]_vars

\* C7: add_letter fails whenever a listed position is a Punctuation
\* fragment, and then leaves every fragment of the word unchanged, whatever
\* Letter positions the list holds besides and in whatever order.
C7_PunctuationRevealChangesNothing ==
    [][(/\ call'.op = "add_letter"
        /\ \A p \in Range(call'.args[2]) : p < Len(word)
        /\ \E p \in Range(call'.args[2]) : word[p + 1].kind = "Punctuation")
          => (ret' = "Err" /\ word' = word)]_vars


\* how often the char c occurs in the string k
Occurrences(k, c) == Cardinality({i \in 1..Len(k) : k[i] = c})

RECURSIVE SumOver(_, _, _)
\* the occurrences of c in the words of the set keys, summed
SumOver(d, keys, c) ==
    IF keys = {} THEN 0
    ELSE LET k == CHOOSE x \in keys : TRUE
         IN Occurrences(k, c) + SumOver(d, keys \ {k}, c)

\* every char of a word of the dictionary, and the chars guessed
CharsOf(d) == UNION {Range(k) : k \in DOMAIN d} \cup GuessChars

\* the word "test"
Test == <<116, 101, 115, 116>>

\* C8 as stated: count_letters gives every char its total number of
\* occurrences across the keys of the remaining entries, a word with the
\* char k times adding k; for the dictionary of "test", 't' counts 2.
C8_CountsOccurrences ==
    call.op = "count_letters" =>
        \A c \in CharsOf(matches) : CountOf(ret, c) = SumOver(matches, DOMAIN matches, c)

\* C8 amended: for a dictionary loaded from a word list, count_letters gives
\* every char the number of remaining entries whose key holds it, a word
\* adding 1 however often it holds the char, and has no entry for a char no
\* key holds; for the dictionary of "test", 't', 'e' and 's' all count 1 and
\* rank_letters returns the three in some order.
C8_CountsWordsHoldingChar ==
    /\ call.op = "count_letters" =>
         /\ \A c \in CharsOf(matches) :
              CountOf(ret, c) = Cardinality({k \in DOMAIN matches : c \in Range(k)})
         /\ DOMAIN ret = UNION {Range(k) : k \in DOMAIN matches}
         /\ DOMAIN matches = {Test} => ret = [c \in {116, 101, 115} |-> 1]
    /\ (call.op = "rank_letters" /\ DOMAIN matches = {Test}) =>
         (Len(ret) = 3 /\ Range(ret) = {116, 101, 115})

\* C8's case: the letters of the dictionary of "test" have been counted
C8_Witness ==
    /\ call.op = "count_letters"
    /\ DOMAIN matches = {Test}
    /\ Occurrences(Test, 116) = 2
    /\ ret[116] = 1

\* C9: rank_letters returns every char that occurs in a remaining entry
\* exactly once, no char that occurs in none, and the chars in
\* non-increasing order of their count_letters count.
C9_RankedByCount ==
    call.op = "rank_letters" =>
        /\ Range(ret) = UNION {Range(k) : k \in DOMAIN matches}
        /\ \A i, j \in 1..Len(ret) : i # j => ret[i] # ret[j]
        /\ \A i, j \in 1..Len(ret) :
             i < j => CountLetters(matches)[ret[i]] >= CountLetters(matches)[ret[j]]

\* C9's case: letters of different counts have been ranked
C9_Witness ==
    /\ call.op = "rank_letters"
    /\ Len(ret) >= 2
    /\ CountLetters(matches)[ret[1]] > CountLetters(matches)[ret[Len(ret)]]

\* C10: remove_with_letter(c) removes every entry whose key holds c and no
\* other, the values of the entries kept unchanged, and a second call with
\* the same c changes nothing.
C10_RemoveWithLetter ==
    [][call'.op = "remove_with_letter" =>
         /\ DOMAIN matches' = {k \in DOMAIN matches : \A i \in 1..Len(k) : k[i] # call'.args[1]}
         /\ \A k \in DOMAIN matches' : matches'[k] = matches[k]
         /\ RemoveWithLetter(matches', call'.args[1]) = matches'
         /\ (call.op = "remove_with_letter" /\ call.args = call'.args)
               => matches' = matches]_vars

\* C10's case: after an earlier call on the loaded dictionary, a letter
\* has been removed and the working dictionary holds exactly the loaded
\* words without it, one word at least removed and one at least kept
C10_Witness ==
    /\ call.op = "remove_with_letter"
    /\ call.n >= 3
    /\ matches # EmptyDict
    /\ \E k \in DOMAIN langdict : call.args[1] \in Range(k)
    /\ DOMAIN matches = {k \in DOMAIN langdict : call.args[1] \notin Range(k)}


\* what the pattern model says of a whole string: as many chars as the
\* Word has fragments, and every position matches
Matches(w, str) ==
    Len(str) = Len(w) /\ \A i \in 1..Len(w) : PositionMatches(w[i], str[i])

\* C11: get_matching(pattern) returns exactly the entries whose key matches
\* the pattern, their values unchanged, and is idempotent: its result
\* filtered again by the same pattern is the same.
C11_GetMatchingExact ==
    call.op = "get_matching" =>
        /\ DOMAIN ret = {k \in DOMAIN matches : Matches(Arg(1), k)}
        /\ \A k \in DOMAIN ret : ret[k] = matches[k]
        /\ GetMatching(ret, Arg(1)) = ret

\* the accepted set as the claim lists it
ListedAccepted(c) == IsAlphanumeric(c) \/ c \in {39, 45, 38, 44, 46, 33}

\* a line of the word list, in lowercase, has a char for which ok is false
SomeLineHasCharNot(ok(_)) ==
    \E l \in Range(Lines(text)) : \E i \in 1..Len(l) : ~ok(LowerChar(l[i]))

\* C12 as stated: loading a word list fails if and only if some line, in
\* lowercase, holds a char outside {alphanumeric, apostrophe, hyphen,
\* ampersand, comma, period, exclamation mark}.
C12_LoadFailsOutsideListedSet ==
    call.op = "from_str" => (~ret.ok <=> SomeLineHasCharNot(ListedAccepted))

\* the accepted set with the slash
ListedOrSlash(c) == ListedAccepted(c) \/ c = 47

\* C12 amended: loading fails, reporting an offending char and returning no
\* dictionary, if and only if some line, in lowercase, holds a char outside
\* {alphanumeric, apostrophe, hyphen, ampersand, comma, period, slash,
\* exclamation mark}.
C12_LoadFailsOutsideAcceptedSet ==
    call.op = "from_str" =>
        /\ ~ret.ok <=> SomeLineHasCharNot(ListedOrSlash)
        /\ ~ret.ok => /\ ret.char # None
                      /\ ~ListedOrSlash(ret.char[1])
                      /\ \E l \in Range(Lines(text)) : \E i \in 1..Len(l) :
                           LowerChar(l[i]) = ret.char[1]
                      /\ ret.dict = EmptyDict /\ pc = "loaderr"

\* C12's case: a word list with a slash in a line has been loaded
C12_Witness ==
    /\ call.op = "from_str"
    /\ ret.ok
    /\ 47 \in Range(text)
    /\ DOMAIN ret.dict # {}

\* C13: a Word w and a string s whose number of chars differs from the
\* number of fragments of w: w does not match s.
C13_DifferentLengthNeverMatches ==
    (call.op = "eq" /\ Len(Arg(1)) # Len(word)) => ret = FALSE

\* a line in lowercase, for the letters A to Z
Lowered(l) == [i \in 1..Len(l) |-> IF l[i] \in 65..90 THEN l[i] + 32 ELSE l[i]]

\* C14: when every line is accepted, the dictionary has exactly one entry
\* for each distinct lowercased line, keyed by it, whose value is the set
\* of its distinct chars ("muffin" maps to {f, i, m, n, u}).
C14_OneEntryPerLowercasedLine ==
    (call.op = "from_str" /\ ret.ok) =>
        /\ DOMAIN ret.dict = {Lowered(l) : l \in Range(Lines(text))}
        /\ \A k \in DOMAIN ret.dict : ret.dict[k] = {k[i] : i \in 1..Len(k)}
        /\ text = Muffin => ret.dict = (Muffin :> {102, 105, 109, 110, 117})

\* C14's case: two lines that differ in case only have been loaded into
\* one entry
C14_Witness ==
    /\ call.op = "from_str"
    /\ ret.ok
    /\ Len(Lines(text)) = 2
    /\ 65 \in Range(text)
    /\ DOMAIN ret.dict = {<<97>>}


\* C15: the solve loop never suggests a char that cannot be guessed: the
\* suggested char is alphanumeric, never a punctuation char of the
\* candidate words or of the pattern.
C15_SuggestionIsAlphanumeric ==
    pc = "AwaitingFeedback" => IsAlphanumeric(suggestion[1])

\* the letters the pattern shows
Revealed(w) == {w[i].c[1] : i \in {j \in 1..Len(w) : w[j].kind = "Letter" /\ w[j].c # None}}

\* C16: after any feedback rounds on a pattern parsed from a format string,
\* every letter revealed in the pattern and every letter reported as a miss
\* is in attempts (and stays there), so the suggested letter is neither a
\* letter placed in the pattern nor a letter guessed and missed.
C16_PlacedAndMissedAreAttempted ==
    [][/\ (buf' # None /\ buf'[2] = <<>>) => buf'[1] \in Range(attempts')
       /\ Range(attempts) \subseteq Range(attempts')
       /\ Revealed(word') \subseteq Range(attempts')
       /\ pc' = "AwaitingFeedback" =>
            /\ suggestion'[1] \notin Revealed(word')
            /\ suggestion'[1] \notin Range(attempts')]_vars

\* C16's case: a suggestion is made after a hit and a miss
C16_Witness ==
    /\ pc = "AwaitingFeedback"
    /\ Len(attempts) = 2
    /\ Revealed(word) # {}
    /\ \E c \in Range(attempts) :
         c \notin Revealed(word) /\ \A k \in DOMAIN matches : c \notin Range(k)

\* the first word of the puzzle as parsed, the pattern the loop starts from
InitialWord == TryFrom(fmt).words[1]

InLoop(p) == p \in {"Ranking", "AwaitingFeedback", "Done", "Panicked"}

\* C17: the working dictionary changes by removal only: after every round
\* it is a subset of what it was (hence of the loaded dictionary filtered
\* by the initial pattern), no entry is inserted or has its value changed,
\* and the loaded dictionary is never modified.
C17_OnlyRemoval ==
    [][/\ InLoop(pc) =>
            /\ langdict' = langdict
            /\ DOMAIN matches' \subseteq DOMAIN matches
            /\ \A k \in DOMAIN matches' : matches'[k] = matches[k]
       /\ InLoop(pc') =>
            /\ DOMAIN matches' \subseteq DOMAIN GetMatching(langdict', InitialWord)
            /\ \A k \in DOMAIN matches' : matches'[k] = langdict'[k]]_vars

\* C17's case: rounds of feedback have removed some candidates and kept
\* others
C17_Witness ==
    /\ pc = "Ranking"
    /\ Len(attempts) = 2
    /\ matches # EmptyDict
    /\ DOMAIN matches # DOMAIN GetMatching(langdict, InitialWord)

\* -- honest play: a target word of the dictionary that matches the initial
\* pattern; the player guesses any char and answers a miss only for a char
\* the target does not hold, a hit only with positions at which the target
\* has the char and the pattern a Letter --

\* the word lists of honest play: those of main and the list "a", e-acute
HonestTexts == Texts \cup {<<97, 10, 233>>}

InitHonest ==
    /\ pc = "Start"
    /\ fmt \in {f \in Formats : TryFrom(f).ok}
    /\ text \in HonestTexts
    /\ langdict = EmptyDict
    /\ word = <<>>
    /\ matches = EmptyDict
    /\ attempts = <<>>
    /\ ranked = <<>>
    /\ suggestion = None
    /\ buf = None
    /\ target \in {t \in DOMAIN FromStr(text).dict : Matches(InitialWord, t)}
    /\ call = NoCall
    /\ ret = NoCall

HonestFeedback ==
    /\ pc = "AwaitingFeedback"
    /\ Len(attempts) < MaxRounds
    /\ \E char \in GuessChars, pos \in PosInputs(word) :
         /\ IF char \notin Range(target) THEN pos = <<>>
            ELSE /\ pos # <<>>
                 /\ \A p \in Range(pos) : /\ p < Len(word)
                                          /\ target[p + 1] = char
                                          /\ word[p + 1].kind = "Letter"
         /\ Apply(char, pos)

NextHonest == Startup \/ Rank \/ HonestFeedback

SpecHonest == InitHonest /\ [][NextHonest]_vars

\* C18: a target t of the loaded dictionary that matches the initial
\* pattern, every feedback truthful about t: t is still in the working
\* candidate set after every round, whichever chars the player guessed.
C18_TargetStaysCandidate ==
    (pc \in {"Ranking", "AwaitingFeedback", "Done"} /\ Len(attempts) >= 1)
        => target \in DOMAIN matches

\* a hit has just been applied: the char and the positions of it
HitApplied == pc = "Ranking" /\ buf # None /\ buf[2] # <<>>

\* C19 as stated: after a hit (c, P) every word left in the working set has
\* c at every position of P and at no position whose fragment is still an
\* unknown Letter.
C19_HitFiltersOtherPlaces ==
    HitApplied =>
        \A k \in DOMAIN matches :
            /\ \A p \in Range(buf[2]) : p + 1 <= Len(k) /\ k[p + 1] = buf[1]
            /\ \A i \in 1..Len(word) :
                 word[i] = Letter(None) => ~(i <= Len(k) /\ k[i] = buf[1])

\* C19 amended: after a hit (c, P) every word left in the working set has c
\* at every position of P that lies within its chars, and the hit removes
\* no word of as many one-byte chars as the pattern has fragments whose
\* every char matches its fragment, so a word with c at a position still
\* an unknown Letter is kept.
C19_HitKeepsLetterAtPlaces ==
    [][HitApplied' =>
        /\ \A k \in DOMAIN matches' :
             \A p \in Range(buf'[2]) : p + 1 <= Len(k) => k[p + 1] = buf'[1]
        /\ \A k \in DOMAIN matches :
             (/\ Len(k) = Len(word')
              /\ \A i \in 1..Len(k) : Utf8Len(k[i]) = 1
              /\ \A i \in 1..Len(k) : PositionMatches(word'[i], k[i]))
                => k \in DOMAIN matches']_vars

\* C19's case: after a hit a candidate with the letter at an unknown
\* position is still in the working set
C19_Witness ==
    /\ HitApplied
    /\ \E k \in DOMAIN matches : \E i \in 1..Len(word) :
         word[i] = Letter(None) /\ i <= Len(k) /\ k[i] = buf[1]

\* C20: rank_letters breaks ties consistently: two calls on equal
\* dictionaries return the same sequence, letters of equal count in the
\* same order.
C20_RankIsReproducible ==
    [][(call.op = "rank_letters" /\ call'.op = "rank_letters") => ret' = ret]_vars

====
